---------------------------- MODULE Spec2Model ----------------------------
(* A model of duplicate-line-identifier.py: the directory merge             *)
(* (process_directory_input), the sanitize stage (sanitize_file), the line  *)
(* classifier (process_file) and the main block that chains them.           *)
(* Text is modelled as a sequence of one-character strings, so that         *)
(* formatting, padding, case folding, globbing and regex matching are       *)
(* computed character by character as the Python code computes them.        *)
EXTENDS Integers, Sequences, FiniteSets, TLC

VARIABLES
    (* process_file *)
    cfg,                  \* the keyword arguments of process_file
    lines,                \* f_in.readlines()
    i,                    \* number of loop iterations completed
    unique_lines,         \* the set of keys seen so far
    unique_line_counter,  \* counter of first occurrences
    output_lines_marked,  \* entries of the -MARKED file
    output_lines_unique,  \* entries of the -UNIQUE file
    file_marked,          \* content written to the -MARKED file
    file_unique,          \* content written to the -UNIQUE file
    pf_pc,                \* "idle" | "loop" | "done"
    rerun,                \* the call reads the stripped -UNIQUE file of a call before it
    first_unique,         \* the lines of that stripped file
    (* sanitize_file *)
    san_lines,            \* the lines the for loop reads from f_in
    san_remove,           \* patterns_to_remove_line
    san_strip,            \* patterns_to_strip_prefix
    san_k,                \* number of loop iterations completed
    san_out,              \* the text written to f_out so far
    lines_written,        \* the counter of lines written
    san_pc,               \* "idle" | "loop" | "done"
    (* process_directory_input *)
    dir_files,            \* the bare names of the files under directory_path,
                          \* in the order in which os.walk lists them
    include_extensions,   \* --include-extensions
    ignore_patterns,      \* --ignore-files
    cwd_inside,           \* os.getcwd() is the scanned directory
    clock,                \* the reading of time.strftime, in seconds
    files_to_process,     \* the merge candidates, in walk order
    merged_file,          \* the return value: a file name, or NoPath for None
    dir_pc,               \* "idle" | "call" | "done"
    (* the main block *)
    input_kind,           \* "missing" | "dir" | "file" | "other"
    pc,                   \* "idle" | "start" | "merge" | "sanitize" | "sanitized" | "exit"
    exit_status,          \* "none" | "0" | "1"
    file_to_process_after_merge,
    sanitized_file_path,
    run_no,                  \* the number of the current run of the tool
    calls,                \* the stages the current run has invoked, in order
    run_outputs,          \* the files the current run has written
    earlier_outputs       \* the files the earlier runs have written

pf_vars == <<cfg, lines, i, unique_lines, unique_line_counter,
             output_lines_marked, output_lines_unique,
             file_marked, file_unique, pf_pc, rerun, first_unique>>

san_vars == <<san_lines, san_remove, san_strip, san_k, san_out, lines_written, san_pc>>

dir_vars == <<dir_files, include_extensions, ignore_patterns, cwd_inside, clock,
              files_to_process, merged_file, dir_pc>>

main_vars == <<input_kind, pc, exit_status, file_to_process_after_merge,
               sanitized_file_path, run_no, calls, run_outputs, earlier_outputs>>

-----------------------------------------------------------------------------
(* Bounds of the model *)

\* longest file of the exhaustive family of short inputs
MaxLines == 3
\* length of the longest file of the family of long inputs
MaxLong == 10
\* longest input file of sanitize_file
MaxSanLines == 2
\* most files in the scanned directory before the first run
MaxFiles == 3
\* most runs of the tool on the same input
MaxRuns == 2

-----------------------------------------------------------------------------
(* Text helpers *)

NL == "\n"

\* str.lower() on the letters the inputs use
LowerChar(c) ==
    CASE c = "A" -> "a"
      [] c = "B" -> "b"
      [] c = "L" -> "l"
      [] c = "O" -> "o"
      [] c = "G" -> "g"
      [] c = "T" -> "t"
      [] c = "X" -> "x"
      [] OTHER -> c

Lower(s) == [k \in 1..Len(s) |-> LowerChar(s[k])]

\* str.rstrip('\n'): drop every trailing newline
RECURSIVE RStripNL(_)
RStripNL(s) ==
    IF s # <<>> /\ s[Len(s)] = NL THEN RStripNL(SubSeq(s, 1, Len(s) - 1)) ELSE s

DigitChar(d) == <<"0", "1", "2", "3", "4", "5", "6", "7", "8", "9">>[d + 1]

\* str(n) for n >= 0
RECURSIVE Str(_)
Str(n) == IF n < 10 THEN <<DigitChar(n)>> ELSE Str(n \div 10) \o <<DigitChar(n % 10)>>

\* "{:0<w>d}".format(n): left-pad with zeros up to width w, never truncate
RECURSIVE ZeroPad(_, _)
ZeroPad(s, w) == IF Len(s) >= w THEN s ELSE ZeroPad(<<"0">> \o s, w)

FormatNumber(w, n) == ZeroPad(Str(n), w)

\* " ".join(parts)
RECURSIVE Join(_)
Join(parts) ==
    IF parts = <<>> THEN <<>>
    ELSE IF Len(parts) = 1 THEN parts[1]
    ELSE parts[1] \o <<" ">> \o Join(Tail(parts))

\* writelines(seq): the concatenation of the entries
RECURSIVE Concat(_)
Concat(seq) == IF seq = <<>> THEN <<>> ELSE seq[1] \o Concat(Tail(seq))

-----------------------------------------------------------------------------
(* process_file: the classifier *)

\* len(lines) and the padding width derived from it
line_number_width_unpadded(num_lines) == 1

line_number_width(num_lines) == IF num_lines > 0 THEN Len(Str(num_lines)) ELSE 1

line_number_format(num_lines, n) == FormatNumber(line_number_width(num_lines), n)

line_for_check_never_lowered(line, c) == RStripNL(line)

line_for_check(line, c) ==
    IF c.case_sensitive THEN RStripNL(line) ELSE Lower(RStripNL(line))

is_empty_line(line) == RStripNL(line) = <<>>

\* the pre-skip of empty lines (ignore_empty_lines)
PreSkipped(line, c) == c.ignore_empty_lines /\ is_empty_line(line)

\* the suppression of duplicate empty lines
Suppressed_never(is_duplicate, line, c) == FALSE

Suppressed_unless_unique_view(is_duplicate, line, c) ==
    /\ is_duplicate /\ ~c.keep_empty_duplicates /\ is_empty_line(line)
    /\ ~(c.tags_to = "unique" /\ ~c.disable_tags)

Suppressed(is_duplicate, line, c) ==
    is_duplicate /\ ~c.keep_empty_duplicates /\ is_empty_line(line)

Tag(is_duplicate) == IF is_duplicate THEN <<"D", "U", "P">> ELSE <<"U", "N", "Q">>

Bracket(s) == <<"[">> \o s \o <<"]">>

WithPrefix(parts, original_line) ==
    IF Join(parts) # <<>> THEN Join(parts) \o <<" ">> \o original_line
    ELSE original_line

marked_tag_present_swapped(c) ==
    ~c.disable_tags /\ (c.tags_to = "both" \/ c.tags_to = "unique")

marked_tag_present(c) ==
    ~c.disable_tags /\ (c.tags_to = "both" \/ c.tags_to = "marked")

marked_line_parts(n, num_lines, is_duplicate, c) ==
    (IF ~c.disable_line_number
        THEN <<Bracket(line_number_format(num_lines, n))>> ELSE <<>>)
    \o (IF marked_tag_present(c) THEN <<Tag(is_duplicate)>> ELSE <<>>)

marked_line(n, num_lines, original_line, is_duplicate, c) ==
    WithPrefix(marked_line_parts(n, num_lines, is_duplicate, c), original_line)

should_add_everything(is_duplicate, c) == TRUE

should_add_only_duplicates(is_duplicate, c) == is_duplicate

should_add_to_unique_output(is_duplicate, c) ==
    \/ ~is_duplicate
    \/ is_duplicate /\ c.tags_to = "unique" /\ ~c.disable_tags

unique_tag_to_add(is_duplicate, c) ==
    IF ~is_duplicate
        THEN IF ~c.disable_tags /\ (c.tags_to = "both" \/ c.tags_to = "unique")
                THEN <<"U", "N", "Q">> ELSE <<>>
        ELSE IF c.tags_to = "unique" /\ ~c.disable_tags
                THEN <<"D", "U", "P">> ELSE <<>>

unique_line_parts(pos, num_lines, is_duplicate, c) ==
    (IF ~c.disable_line_number
        THEN <<Bracket(line_number_format(num_lines, pos))>> ELSE <<>>)
    \o (IF unique_tag_to_add(is_duplicate, c) # <<>>
        THEN <<unique_tag_to_add(is_duplicate, c)>> ELSE <<>>)

unique_line(pos, num_lines, original_line, is_duplicate, c) ==
    WithPrefix(unique_line_parts(pos, num_lines, is_duplicate, c), original_line)

(* The inputs: policy configurations and files *)

Configs ==
    [tags_to : {"both", "marked", "unique"},
     ignore_empty_lines : BOOLEAN,
     case_sensitive : BOOLEAN,
     keep_empty_duplicates : BOOLEAN,
     disable_line_number : BOOLEAN,
     disable_tags : BOOLEAN]

\* the argparse defaults
DefaultConfig ==
    [tags_to |-> "both", ignore_empty_lines |-> FALSE, case_sensitive |-> TRUE,
     keep_empty_duplicates |-> FALSE, disable_line_number |-> FALSE,
     disable_tags |-> FALSE]

Contents == {<<"a">>, <<"A">>, <<"b">>, <<>>}

\* readlines(): every line ends with a newline, except possibly the last
TerminateAll(cs) == [k \in 1..Len(cs) |-> cs[k] \o <<NL>>]

TerminateButLast(cs) ==
    [k \in 1..Len(cs) |-> IF k < Len(cs) THEN cs[k] \o <<NL>> ELSE cs[k]]

SeqsUpTo(S, n) == UNION {[1..m -> S] : m \in 0..n}

ShortFiles ==
    {TerminateAll(cs) : cs \in SeqsUpTo(Contents, MaxLines)}
    \cup {TerminateButLast(cs) :
            cs \in {s \in SeqsUpTo(Contents, MaxLines) : s # <<>> /\ s[Len(s)] # <<>>}}

\* long files: a free head of at most two lines, then one line repeated
LongFiles ==
    {TerminateAll(h \o [k \in 1..(n - Len(h)) |-> t]) :
        h \in SeqsUpTo({<<"a">>, <<>>}, 2),
        t \in {<<"a">>, <<"b">>, <<>>},
        n \in {MaxLong - 1, MaxLong}}

\* two more files, with another letter between and after empty lines
MixedFiles ==
    {TerminateAll(<< <<>>, <<"x">>, <<>> >>), TerminateButLast(<< <<>>, <<>>, <<"x">> >>)}

PfIdle ==
    /\ cfg = DefaultConfig
    /\ lines = <<>>
    /\ i = 0
    /\ unique_lines = {}
    /\ unique_line_counter = 0
    /\ output_lines_marked = <<>>
    /\ output_lines_unique = <<>>
    /\ file_marked = <<>>
    /\ file_unique = <<>>
    /\ pf_pc = "idle"
    /\ rerun = FALSE
    /\ first_unique = <<>>

\* process_file after readlines() and before the first iteration
PfInit ==
    /\ cfg \in Configs
    /\ lines \in ShortFiles \cup LongFiles \cup MixedFiles
    /\ i = 0
    /\ unique_lines = {}
    /\ unique_line_counter = 0
    /\ output_lines_marked = <<>>
    /\ output_lines_unique = <<>>
    /\ file_marked = <<>>
    /\ file_unique = <<>>
    /\ pf_pc = "loop"
    /\ rerun = FALSE
    /\ first_unique = <<>>

\* one iteration of the for loop
ProcessLine ==
    /\ pf_pc = "loop"
    /\ i < Len(lines)
    /\ i' = i + 1
    /\ LET original_line == lines[i + 1]
           key == line_for_check(original_line, cfg)
           is_duplicate == key \in unique_lines
       IN  IF PreSkipped(original_line, cfg)
           THEN UNCHANGED <<unique_lines, unique_line_counter,
                            output_lines_marked, output_lines_unique>>
           ELSE /\ unique_lines' =
                     IF is_duplicate THEN unique_lines ELSE unique_lines \cup {key}
                /\ unique_line_counter' =
                     IF is_duplicate THEN unique_line_counter
                     ELSE unique_line_counter + 1
                /\ IF Suppressed(is_duplicate, original_line, cfg)
                   THEN UNCHANGED <<output_lines_marked, output_lines_unique>>
                   ELSE /\ output_lines_marked' =
                             Append(output_lines_marked,
                                    marked_line(i + 1, Len(lines), original_line,
                                                is_duplicate, cfg))
                        /\ output_lines_unique' =
                             IF should_add_to_unique_output(is_duplicate, cfg)
                             THEN Append(output_lines_unique,
                                         unique_line(Len(output_lines_unique) + 1,
                                                     Len(lines), original_line,
                                                     is_duplicate, cfg))
                             ELSE output_lines_unique
    /\ UNCHANGED <<cfg, lines, file_marked, file_unique, pf_pc, rerun, first_unique>>
    /\ UNCHANGED <<san_vars, dir_vars, main_vars>>

\* the two writelines() calls after the loop
WriteOutputs ==
    /\ pf_pc = "loop"
    /\ i = Len(lines)
    /\ file_marked' = Concat(output_lines_marked)
    /\ file_unique' = Concat(output_lines_unique)
    /\ pf_pc' = "done"
    /\ UNCHANGED <<cfg, lines, i, unique_lines, unique_line_counter,
                   output_lines_marked, output_lines_unique, rerun, first_unique>>
    /\ UNCHANGED <<san_vars, dir_vars, main_vars>>

(* A second call of process_file, with the same arguments, on the -UNIQUE   *)
(* file of the first call after its number and tag prefixes are removed.    *)

\* the index of the first ch of text at or after k, or 0
RECURSIVE IndexOf(_, _, _)
IndexOf(text, ch, k) ==
    IF k > Len(text) THEN 0
    ELSE IF text[k] = ch THEN k
    ELSE IndexOf(text, ch, k + 1)

\* readlines(): the text cut after every newline
RECURSIVE ReadLines(_)
ReadLines(text) ==
    IF text = <<>> THEN <<>>
    ELSE LET n == IndexOf(text, NL, 1)
         IN  IF n = 0 THEN <<text>>
             ELSE <<SubSeq(text, 1, n)>> \o ReadLines(SubSeq(text, n + 1, Len(text)))

\* the characters of s after its first n
Drop(s, n) == SubSeq(s, n + 1, Len(s))

\* a line of the -UNIQUE file without the "[number] " field
WithoutNumber(entry, c) ==
    IF c.disable_line_number THEN entry
    ELSE Drop(entry, IndexOf(entry, "]", 1) + 1)

\* the -UNIQUE file carries a tag on every line under this policy
unique_tag_present(c) == ~c.disable_tags /\ (c.tags_to = "both" \/ c.tags_to = "unique")

\* a line of the -UNIQUE file without its number and tag prefixes
StripPrefix(entry, c) ==
    IF unique_tag_present(c) THEN Drop(WithoutNumber(entry, c), 4)
    ELSE WithoutNumber(entry, c)

StripPrefixes(text, c) ==
    LET entries == ReadLines(text)
    IN  [k \in 1..Len(entries) |-> StripPrefix(entries[k], c)]

\* process_file is called again: readlines() of the stripped file, then the
\* initialisations before the loop
Rerun ==
    /\ pf_pc = "done"
    /\ ~rerun
    /\ rerun' = TRUE
    /\ first_unique' = StripPrefixes(file_unique, cfg)
    /\ lines' = first_unique'
    /\ i' = 0
    /\ unique_lines' = {}
    /\ unique_line_counter' = 0
    /\ output_lines_marked' = <<>>
    /\ output_lines_unique' = <<>>
    /\ file_marked' = <<>>
    /\ file_unique' = <<>>
    /\ pf_pc' = "loop"
    /\ UNCHANGED cfg
    /\ UNCHANGED <<san_vars, dir_vars, main_vars>>

-----------------------------------------------------------------------------
(* Regular expressions, as the re module matches them: a pattern is a       *)
(* sequence of items, each a character set with a repetition range, greedy  *)
(* or lazy, or the anchor ^ (start of the string: no MULTILINE flag).       *)
(* The character of code 0x1b is written "ESC".                             *)

DigitSet == {"0", "1", "2", "3", "4", "5", "6", "7", "8", "9"}

UpperSet == {"A", "B", "C", "D", "E", "F", "G", "H", "I", "J", "K", "L", "M",
             "N", "O", "P", "Q", "R", "S", "T", "U", "V", "W", "X", "Y", "Z"}

LowerSet == {"a", "b", "c", "d", "e", "f", "g", "h", "i", "j", "k", "l", "m",
             "n", "o", "p", "q", "r", "s", "t", "u", "v", "w", "x", "y", "z"}

\* \s
SpaceSet == {" ", "\t", "\n", "\r", "\f"}

Unbounded == -1

Bol == [kind |-> "bol", set |-> {}, min |-> 0, max |-> 0, lazy |-> FALSE]

Rep(set, min, max, lazy) ==
    [kind |-> "set", set |-> set, min |-> min, max |-> max, lazy |-> lazy]

Lit(c) == Rep({c}, 1, 1, FALSE)

Exactly(set, n) == Rep(set, n, n, FALSE)

Star(set) == Rep(set, 0, Unbounded, FALSE)

Plus(set) == Rep(set, 1, Unbounded, FALSE)

LazyPlus(set) == Rep(set, 1, Unbounded, TRUE)

\* the number of consecutive characters of set from offset p, at most max
RECURSIVE RunLen(_, _, _, _)
RunLen(set, s, p, max) ==
    IF max = 0 \/ p >= Len(s) \/ s[p + 1] \notin set THEN 0
    ELSE 1 + RunLen(set, s, p + 1, IF max = Unbounded THEN max ELSE max - 1)

\* the offset where the match of items k.. of pat starting at offset p ends,
\* following the backtracking order of the engine, or -1
RECURSIVE MatchFrom(_, _, _, _)
RECURSIVE TryCounts(_, _, _, _, _, _, _)
MatchFrom(pat, k, s, p) ==
    IF k > Len(pat) THEN p
    ELSE IF pat[k].kind = "bol"
         THEN IF p = 0 THEN MatchFrom(pat, k + 1, s, p) ELSE -1
    ELSE LET run == RunLen(pat[k].set, s, p, pat[k].max)
         IN  IF run < pat[k].min THEN -1
             ELSE IF pat[k].lazy
                  THEN TryCounts(pat, k, s, p, pat[k].min, run, 1)
                  ELSE TryCounts(pat, k, s, p, run, pat[k].min, -1)

TryCounts(pat, k, s, p, n, last, step) ==
    LET r == MatchFrom(pat, k + 1, s, p + n)
    IN  IF r # -1 THEN r
        ELSE IF n = last THEN -1
        ELSE TryCounts(pat, k, s, p, n + step, last, step)

\* pattern.match(s): a match at the start of the string
ReMatch(pat, s) == MatchFrom(pat, 1, s, 0) # -1

\* the leftmost offset from p on where pat matches, or -1
RECURSIVE SearchFrom(_, _, _)
SearchFrom(pat, s, p) ==
    IF p > Len(s) THEN -1
    ELSE IF MatchFrom(pat, 1, s, p) # -1 THEN p
    ELSE SearchFrom(pat, s, p + 1)

\* pattern.subn('', s, count=1): the first match anywhere in s is removed
ReSubn(pat, s) ==
    LET p == SearchFrom(pat, s, 0)
    IN  IF p = -1 THEN [new_line |-> s, num_subs |-> 0]
        ELSE [new_line |-> SubSeq(s, 1, p)
                           \o SubSeq(s, MatchFrom(pat, 1, s, p) + 1, Len(s)),
              num_subs |-> 1]

(* The patterns of the main block *)

\* ^\s*\[\x1b\[\d+m[A-Z]+?\x1b\[0m\]
AnsiLevel ==
    <<Bol, Star(SpaceSet), Lit("["), Lit("ESC"), Lit("["), Plus(DigitSet), Lit("m"),
      LazyPlus(UpperSet), Lit("ESC"), Lit("["), Lit("0"), Lit("m"), Lit("]")>>

\* \d{2}:\d{2}:\d{2}
Clock ==
    <<Exactly(DigitSet, 2), Lit(":"), Exactly(DigitSet, 2), Lit(":"),
      Exactly(DigitSet, 2)>>

\* \d{4}-\d{2}-\d{2}
Date == <<Exactly(DigitSet, 4), Lit("-"), Exactly(DigitSet, 2), Lit("-"),
          Exactly(DigitSet, 2)>>

\* ^\s*\[\d{4}-\d{2}-\d{2}\s+\d{2}:\d{2}:\d{2}\]\s*
NucleiStamp ==
    <<Bol, Star(SpaceSet), Lit("[")>> \o Date \o <<Plus(SpaceSet)>> \o Clock
    \o <<Lit("]"), Star(SpaceSet)>>

\* \[\d{2}:\d{2}:\d{2}\]\s*
BracketClock == <<Lit("[")>> \o Clock \o <<Lit("]"), Star(SpaceSet)>>

\* ^\s*\[\d{2}:\d{2}:\d{2}\]\s*
SqlmapStamp == <<Bol, Star(SpaceSet)>> \o BracketClock

\* ^\s*[A-Z][a-z]{2}\s\d{2}\/\d{2}\/\d{4}\s+\d{1,2}:\d{2}:\d{2}\.\d{2}:\s*
CmdStamp ==
    <<Bol, Star(SpaceSet), Exactly(UpperSet, 1), Exactly(LowerSet, 2),
      Exactly(SpaceSet, 1), Exactly(DigitSet, 2), Lit("/"), Exactly(DigitSet, 2),
      Lit("/"), Exactly(DigitSet, 4), Plus(SpaceSet), Rep(DigitSet, 1, 2, FALSE),
      Lit(":"), Exactly(DigitSet, 2), Lit(":"), Exactly(DigitSet, 2), Lit("."),
      Exactly(DigitSet, 2), Lit(":"), Star(SpaceSet)>>

\* re.compile(p): patterns are named in the state and compiled on use
Compile(p) ==
    CASE p = "AnsiLevel" -> AnsiLevel
      [] p = "NucleiStamp" -> NucleiStamp
      [] p = "SqlmapStamp" -> SqlmapStamp
      [] p = "CmdStamp" -> CmdStamp
      [] p = "BracketClock" -> BracketClock

patterns_to_remove_line == <<"AnsiLevel">>

patterns_to_strip_prefix == <<"NucleiStamp", "SqlmapStamp", "CmdStamp">>

-----------------------------------------------------------------------------
(* sanitize_file *)

\* step 1 of the loop body: some remove pattern matches at the start
skip_line(line, remove) ==
    \E k \in 1..Len(remove) : ReMatch(Compile(remove[k]), line)

\* step 2 of the loop body: the first strip pattern that substitutes wins
RECURSIVE StripFrom(_, _, _)
StripFrom(line, strip, k) ==
    IF k > Len(strip) THEN line
    ELSE IF ReSubn(Compile(strip[k]), line).num_subs > 0
         THEN ReSubn(Compile(strip[k]), line).new_line
    ELSE StripFrom(line, strip, k + 1)

processed_line(line, strip) == StripFrom(line, strip, 1)

(* The inputs of sanitize_file *)

SegClock == <<"[", "1", "0", ":", "2", "0", ":", "3", "0", "]">>

SegDate ==
    <<"[", "2", "0", "2", "4", "-", "0", "1", "-", "0", "2", " ",
      "1", "0", ":", "2", "0", ":", "3", "0", "]">>

SegCmd ==
    <<"M", "o", "n", " ", "0", "1", "/", "0", "2", "/", "2", "0", "2", "4", " ",
      "1", ":", "0", "2", ":", "0", "3", ".", "0", "4", ":">>

SegAnsi ==
    <<"[", "ESC", "[", "3", "4", "m", "I", "N", "F", "ESC", "[", "0", "m", "]">>

SegHello == <<"h", "e", "l", "l", "o">>

Segments == {SegClock, SegDate, SegCmd, SegAnsi, SegHello, <<" ">>}

\* a line body: nothing or a segment, then nothing, text, a clock or a blank
SanBodies ==
    {a \o b : a \in Segments \cup {<<>>}, b \in {<<>>, SegHello, SegClock, <<" ">>}}

SanFiles ==
    {TerminateAll(cs) : cs \in SeqsUpTo(SanBodies, MaxSanLines)}
    \cup {TerminateButLast(cs) :
            cs \in {s \in SeqsUpTo(SanBodies, MaxSanLines) : s # <<>> /\ s[Len(s)] # <<>>}}

\* the strip lists sanitize_file is called with: the list of the main block,
\* and lists holding a pattern that is not anchored
StripLists ==
    {patterns_to_strip_prefix, <<"BracketClock">>, <<"BracketClock", "SqlmapStamp">>}

SanIdle ==
    /\ san_lines = <<>>
    /\ san_remove = <<>>
    /\ san_strip = <<>>
    /\ san_k = 0
    /\ san_out = <<>>
    /\ lines_written = 0
    /\ san_pc = "idle"

\* sanitize_file after both files are opened
SanInit ==
    /\ san_lines \in SanFiles
    /\ san_remove = patterns_to_remove_line
    /\ san_strip \in StripLists
    /\ san_k = 0
    /\ san_out = <<>>
    /\ lines_written = 0
    /\ san_pc = "loop"

\* one iteration of the for loop
SanitizeLine ==
    /\ san_pc = "loop"
    /\ san_k < Len(san_lines)
    /\ san_k' = san_k + 1
    /\ LET line == san_lines[san_k + 1]
       IN  IF skip_line(line, san_remove)
           THEN UNCHANGED <<san_out, lines_written>>
           ELSE /\ san_out' = san_out \o processed_line(line, san_strip)
                /\ lines_written' = lines_written + 1
    /\ UNCHANGED <<san_lines, san_remove, san_strip, san_pc>>
    /\ UNCHANGED <<pf_vars, dir_vars, main_vars>>

\* the with block is left and the output path returned
SanitizeReturn ==
    /\ san_pc = "loop"
    /\ san_k = Len(san_lines)
    /\ san_pc' = "done"
    /\ UNCHANGED <<san_lines, san_remove, san_strip, san_k, san_out, lines_written>>
    /\ UNCHANGED <<pf_vars, dir_vars, main_vars>>

-----------------------------------------------------------------------------
(* File names and the command-line lists.  A name is a sequence of          *)
(* characters; the strings of the two list arguments are kept as strings in *)
(* the state and spelled out by Chars when the code looks into them.        *)

Chars(str) ==
    CASE str = ".log" -> <<".", "l", "o", "g">>
      [] str = ".txt" -> <<".", "t", "x", "t">>
      [] str = "log" -> <<"l", "o", "g">>
      [] str = "LOG" -> <<"L", "O", "G">>
      [] str = ".LOG" -> <<".", "L", "O", "G">>
      [] str = "a*" -> <<"a", "*">>
      [] str = "*-MERGED_*.txt" ->
           <<"*", "-", "M", "E", "R", "G", "E", "D", "_", "*", ".", "t", "x", "t">>
      [] str = "*-SANITIZED.*" ->
           <<"*", "-", "S", "A", "N", "I", "T", "I", "Z", "E", "D", ".", "*">>
      [] str = "*-MARKED.*" -> <<"*", "-", "M", "A", "R", "K", "E", "D", ".", "*">>
      [] str = "*-UNIQUE.*" -> <<"*", "-", "U", "N", "I", "Q", "U", "E", ".", "*">>

\* the argparse defaults of --include-extensions and --ignore-files
DefaultExtensions == <<".log", ".txt">>

DefaultIgnore == <<"*-MERGED_*.txt", "*-SANITIZED.*", "*-MARKED.*", "*-UNIQUE.*">>

\* None, for a path
NoPath == <<>>

\* fnmatch.fnmatch(name, pat) on a POSIX system: * matches any run of
\* characters, ? any one character, the whole name must match
RECURSIVE FnMatch(_, _)
FnMatch(name, pat) ==
    IF pat = <<>> THEN name = <<>>
    ELSE IF pat[1] = "*"
         THEN FnMatch(name, Tail(pat)) \/ (name # <<>> /\ FnMatch(Tail(name), pat))
    ELSE IF name = <<>> THEN FALSE
    ELSE (pat[1] = "?" \/ pat[1] = name[1]) /\ FnMatch(Tail(name), Tail(pat))

\* the position of the last "." of name, or 0
RECURSIVE LastDot(_)
LastDot(name) ==
    IF name = <<>> THEN 0
    ELSE IF name[Len(name)] = "." THEN Len(name)
    ELSE LastDot(SubSeq(name, 1, Len(name) - 1))

\* os.path.splitext(name): the extension starts at the last dot, unless only
\* dots precede it
SplitExt(name) ==
    LET d == LastDot(name)
    IN  IF d > 0 /\ \E k \in 1..(d - 1) : name[k] # "."
        THEN [base |-> SubSeq(name, 1, d - 1), ext |-> SubSeq(name, d, Len(name))]
        ELSE [base |-> name, ext |-> <<>>]

\* ext.lstrip('.')
RECURSIVE LStripDot(_)
LStripDot(ext) == IF ext # <<>> /\ ext[1] = "." THEN LStripDot(Tail(ext)) ELSE ext

\* the list comprehension that gives every entry one leading dot
normalized_extensions(include) ==
    {<<".">> \o LStripDot(Chars(include[k])) : k \in 1..Len(include)}

should_ignore(filename, ignore) ==
    \E k \in 1..Len(ignore) : FnMatch(filename, Chars(ignore[k]))

extension_allowed(filename, include) ==
    include = <<>> \/ Lower(SplitExt(filename).ext) \in normalized_extensions(include)

\* the two checks of the walk: the file is appended to files_to_process
Selected(filename, include, ignore) ==
    ~should_ignore(filename, ignore) /\ extension_allowed(filename, include)

\* os.path.basename(os.path.normpath(directory_path))
folder_name == <<"d">>

StampWidth == 14

\* time.strftime('%Y%m%d%H%M%S'): fourteen digits that grow with the clock
Stamp(t) == ZeroPad(Str(t), StampWidth)

\* f"{folder_name}_MERGED_{timestamp}.txt"
output_filename(t) ==
    folder_name \o <<"_", "M", "E", "R", "G", "E", "D", "_">> \o Stamp(t)
    \o <<".", "t", "x", "t">>

WithSuffix(path, suffix) == SplitExt(path).base \o suffix \o SplitExt(path).ext

\* f"{base}-SANITIZED{ext}"
sanitized_output_file(path) ==
    WithSuffix(path, <<"-", "S", "A", "N", "I", "T", "I", "Z", "E", "D">>)

\* f"{base}-MARKED{ext}"
output_file_marked(path) == WithSuffix(path, <<"-", "M", "A", "R", "K", "E", "D">>)

\* f"{base}-UNIQUE{ext}"
output_file_unique(path) == WithSuffix(path, <<"-", "U", "N", "I", "Q", "U", "E">>)

\* the listings of at most n files with names in S, in any order
Listings(S, n) ==
    {s \in SeqsUpTo(S, n) : \A a, b \in 1..Len(s) : a # b => s[a] # s[b]}

Names(listing) == {listing[k] : k \in 1..Len(listing)}

\* a file is created, or overwritten when the name exists: a new name is
\* listed after the names that exist
Create(listing, name) ==
    IF name \in Names(listing) THEN listing ELSE Append(listing, name)

(* The inputs of the merge *)

UserNames ==
    {<<"a", ".", "l", "o", "g">>, <<"A", ".", "L", "O", "G">>,
     <<"n", ".", "t", "x", "t">>, <<"c", ".", "d", "a", "t">>,
     <<".", "l", "o", "g">>, <<"l", "o", "g">>,
     <<"a", "-", "M", "A", "R", "K", "E", "D", ".", "l", "o", "g">>}

Directories == Listings(UserNames, MaxFiles)

ExtensionLists == {DefaultExtensions, <<"LOG">>, <<".LOG">>, <<"log">>, <<>>}

IgnoreLists == {DefaultIgnore, <<"a*">>, <<>>}

-----------------------------------------------------------------------------
(* process_directory_input *)

DirIdle ==
    /\ dir_files = <<>>
    /\ include_extensions = DefaultExtensions
    /\ ignore_patterns = DefaultIgnore
    /\ cwd_inside = FALSE
    /\ clock = 0
    /\ files_to_process = <<>>
    /\ merged_file = NoPath
    /\ dir_pc = "idle"

\* a call of process_directory_input
DirInit ==
    /\ dir_files \in Directories
    /\ include_extensions \in ExtensionLists
    /\ ignore_patterns \in IgnoreLists
    /\ cwd_inside \in BOOLEAN
    /\ clock = 0
    /\ files_to_process = <<>>
    /\ merged_file = NoPath
    /\ dir_pc = "call"

\* the whole function: the walk, then the merged file written in the current
\* directory, unless no file was selected or the output cannot be opened
MergeDirectory ==
    /\ dir_pc = "call"
    /\ dir_pc' = "done"
    /\ files_to_process' =
         SelectSeq(dir_files,
                   LAMBDA f : Selected(f, include_extensions, ignore_patterns))
    /\ \E opened \in BOOLEAN :
         IF files_to_process' # <<>> /\ opened
         THEN /\ merged_file' = output_filename(clock)
              /\ run_outputs' = run_outputs \cup {output_filename(clock)}
              /\ dir_files' = IF cwd_inside
                              THEN Create(dir_files, output_filename(clock))
                              ELSE dir_files
         ELSE /\ merged_file' = NoPath
              /\ UNCHANGED <<run_outputs, dir_files>>
    /\ UNCHANGED <<include_extensions, ignore_patterns, cwd_inside, clock>>
    /\ UNCHANGED <<input_kind, pc, exit_status, file_to_process_after_merge,
                   sanitized_file_path, run_no, calls, earlier_outputs>>
    /\ UNCHANGED <<pf_vars, san_vars>>

-----------------------------------------------------------------------------
(* The main block *)

MainIdle ==
    /\ input_kind = "file"
    /\ pc = "idle"
    /\ exit_status = "none"
    /\ file_to_process_after_merge = NoPath
    /\ sanitized_file_path = NoPath
    /\ run_no = 0
    /\ calls = <<>>
    /\ run_outputs = {}
    /\ earlier_outputs = {}

\* the single input file
input_file == <<"a", ".", "l", "o", "g">>

\* the first run of the tool, after parse_args
MainInit ==
    /\ input_kind \in {"missing", "dir", "file", "other"}
    /\ pc = "start"
    /\ exit_status = "none"
    /\ file_to_process_after_merge = NoPath
    /\ sanitized_file_path = NoPath
    /\ run_no = 1
    /\ calls = <<>>
    /\ run_outputs = {}
    /\ earlier_outputs = {}
    /\ IF input_kind = "dir"
       THEN /\ dir_files \in {d \in Directories : Names(d) \subseteq
                                {<<"a", ".", "l", "o", "g">>, <<"n", ".", "t", "x", "t">>,
                                 <<"c", ".", "d", "a", "t">>}}
            /\ include_extensions \in {DefaultExtensions, <<"LOG">>}
            /\ ignore_patterns \in {DefaultIgnore, <<"a*">>}
            /\ cwd_inside \in BOOLEAN
       ELSE /\ dir_files = <<>>
            /\ include_extensions = DefaultExtensions
            /\ ignore_patterns = DefaultIgnore
            /\ cwd_inside = FALSE
    /\ clock = 0
    /\ files_to_process = <<>>
    /\ merged_file = NoPath
    /\ dir_pc = "idle"

\* a file the current run writes: it lands in the scanned directory when the
\* input is a directory and the current directory lies inside it
RECURSIVE CreateAll(_, _)
CreateAll(listing, names) ==
    IF names = <<>> THEN listing
    ELSE CreateAll(Create(listing, names[1]), Tail(names))

Written(names) ==
    /\ run_outputs' = run_outputs \cup Names(names)
    /\ dir_files' = IF input_kind = "dir" /\ cwd_inside
                    THEN CreateAll(dir_files, names) ELSE dir_files

\* step 1: the input path is missing, or neither a file nor a directory
RejectInput ==
    /\ pc = "start"
    /\ input_kind \in {"missing", "other"}
    /\ pc' = "exit"
    /\ exit_status' = "1"
    /\ UNCHANGED <<input_kind, file_to_process_after_merge, sanitized_file_path,
                   run_no, calls, run_outputs, earlier_outputs>>
    /\ UNCHANGED <<pf_vars, san_vars, dir_vars>>

\* step 1: the input is a directory and process_directory_input is called
CallMerge ==
    /\ pc = "start"
    /\ input_kind = "dir"
    /\ pc' = "merge"
    /\ dir_pc' = "call"
    /\ calls' = Append(calls, "merge")
    /\ UNCHANGED <<input_kind, exit_status, file_to_process_after_merge,
                   sanitized_file_path, run_no, run_outputs, earlier_outputs>>
    /\ UNCHANGED <<dir_files, include_extensions, ignore_patterns, cwd_inside,
                   clock, files_to_process, merged_file>>
    /\ UNCHANGED <<pf_vars, san_vars>>

\* step 1: process_directory_input has returned
AfterMerge ==
    /\ pc = "merge"
    /\ dir_pc = "done"
    /\ IF merged_file # NoPath
       THEN /\ file_to_process_after_merge' = merged_file
            /\ pc' = "sanitize"
            /\ UNCHANGED exit_status
       ELSE /\ pc' = "exit"
            /\ exit_status' = "1"
            /\ UNCHANGED file_to_process_after_merge
    /\ UNCHANGED <<input_kind, sanitized_file_path, run_no, calls, run_outputs,
                   earlier_outputs>>
    /\ UNCHANGED <<pf_vars, san_vars, dir_vars>>

\* step 1: the input is a single file
TakeFile ==
    /\ pc = "start"
    /\ input_kind = "file"
    /\ file_to_process_after_merge' = input_file
    /\ pc' = "sanitize"
    /\ UNCHANGED <<input_kind, exit_status, sanitized_file_path, run_no, calls,
                   run_outputs, earlier_outputs>>
    /\ UNCHANGED <<pf_vars, san_vars, dir_vars>>

\* step 2: sanitize_file is called and returns the output path, or None when
\* a file cannot be opened, read or written
CallSanitize ==
    /\ pc = "sanitize"
    /\ file_to_process_after_merge # NoPath
    /\ pc' = "sanitized"
    /\ calls' = Append(calls, "sanitize")
    /\ \E succeeded \in BOOLEAN :
         IF succeeded
         THEN /\ sanitized_file_path' = sanitized_output_file(file_to_process_after_merge)
              /\ Written(<<sanitized_output_file(file_to_process_after_merge)>>)
         ELSE /\ sanitized_file_path' = NoPath
              /\ UNCHANGED <<run_outputs, dir_files>>
    /\ UNCHANGED <<input_kind, exit_status, file_to_process_after_merge, run_no,
                   earlier_outputs>>
    /\ UNCHANGED <<include_extensions, ignore_patterns, cwd_inside, clock,
                   files_to_process, merged_file, dir_pc>>
    /\ UNCHANGED <<pf_vars, san_vars>>

\* step 3 without the test of sanitized_file_path
CallProcessFile_unguarded ==
    /\ pc = "sanitized"
    /\ pc' = "exit"
    /\ exit_status' = "0"
    /\ calls' = Append(calls, "classify")
    /\ \E read \in BOOLEAN, marked_written \in BOOLEAN, unique_written \in BOOLEAN :
         Written((IF read /\ marked_written
                     THEN <<output_file_marked(sanitized_file_path)>> ELSE <<>>)
                 \o (IF read /\ unique_written
                     THEN <<output_file_unique(sanitized_file_path)>> ELSE <<>>))
    /\ UNCHANGED <<input_kind, file_to_process_after_merge, sanitized_file_path, run_no,
                   earlier_outputs>>
    /\ UNCHANGED <<include_extensions, ignore_patterns, cwd_inside, clock,
                   files_to_process, merged_file, dir_pc>>
    /\ UNCHANGED <<pf_vars, san_vars>>

\* step 3: process_file is called; it returns early when the file cannot be
\* read, and each of its two writes may fail; then the script ends
CallProcessFile ==
    /\ pc = "sanitized"
    /\ sanitized_file_path # NoPath
    /\ pc' = "exit"
    /\ exit_status' = "0"
    /\ calls' = Append(calls, "classify")
    /\ \E read \in BOOLEAN, marked_written \in BOOLEAN, unique_written \in BOOLEAN :
         Written((IF read /\ marked_written
                     THEN <<output_file_marked(sanitized_file_path)>> ELSE <<>>)
                 \o (IF read /\ unique_written
                     THEN <<output_file_unique(sanitized_file_path)>> ELSE <<>>))
    /\ UNCHANGED <<input_kind, file_to_process_after_merge, sanitized_file_path, run_no,
                   earlier_outputs>>
    /\ UNCHANGED <<include_extensions, ignore_patterns, cwd_inside, clock,
                   files_to_process, merged_file, dir_pc>>
    /\ UNCHANGED <<pf_vars, san_vars>>

\* step 3: sanitize_file returned None: a message is printed and the script ends
SkipProcessFile ==
    /\ pc = "sanitized"
    /\ sanitized_file_path = NoPath
    /\ pc' = "exit"
    /\ exit_status' = "0"
    /\ UNCHANGED <<input_kind, file_to_process_after_merge, sanitized_file_path, run_no,
                   calls, run_outputs, earlier_outputs>>
    /\ UNCHANGED <<pf_vars, san_vars, dir_vars>>

\* the tool is run again on the same input, in the same or a later second
RunAgain ==
    /\ pc = "exit"
    /\ run_no < MaxRuns
    /\ run_no' = run_no + 1
    /\ clock' \in {clock, clock + 1}
    /\ pc' = "start"
    /\ exit_status' = "none"
    /\ file_to_process_after_merge' = NoPath
    /\ sanitized_file_path' = NoPath
    /\ calls' = <<>>
    /\ earlier_outputs' = earlier_outputs \cup run_outputs
    /\ run_outputs' = {}
    /\ files_to_process' = <<>>
    /\ merged_file' = NoPath
    /\ dir_pc' = "idle"
    /\ UNCHANGED <<input_kind, dir_files, include_extensions, ignore_patterns, cwd_inside>>
    /\ UNCHANGED <<pf_vars, san_vars>>

-----------------------------------------------------------------------------
(* Specifications *)

vars == <<pf_vars, san_vars, dir_vars, main_vars>>

\* process_file on the files and policies of the model
Init == PfInit /\ SanIdle /\ DirIdle /\ MainIdle

Next == ProcessLine \/ WriteOutputs

Spec == Init /\ [][Next]_vars

\* process_file, then process_file on its stripped -UNIQUE file
InitRerun == PfInit /\ SanIdle /\ DirIdle /\ MainIdle

NextRerun == ProcessLine \/ WriteOutputs \/ Rerun

SpecRerun == InitRerun /\ [][NextRerun]_vars

\* sanitize_file on the files and pattern lists of the model
InitSanitize == SanInit /\ PfIdle /\ DirIdle /\ MainIdle

NextSanitize == SanitizeLine \/ SanitizeReturn

SpecSanitize == InitSanitize /\ [][NextSanitize]_vars

\* process_directory_input on the directories and lists of the model
InitDir == DirInit /\ PfIdle /\ SanIdle /\ MainIdle

NextDir == MergeDirectory

SpecDir == InitDir /\ [][NextDir]_vars

\* runs of the whole script
InitMain == MainInit /\ PfIdle /\ SanIdle

NextMain ==
    \/ RejectInput
    \/ CallMerge
    \/ MergeDirectory
    \/ AfterMerge
    \/ TakeFile
    \/ CallSanitize
    \/ CallProcessFile
    \/ SkipProcessFile
    \/ RunAgain

SpecMain == InitMain /\ [][NextMain]_vars

-----------------------------------------------------------------------------
(* Properties of process_file.  The classification of the k-th input line   *)
(* is restated here from the input alone, without the seen-set.             *)

ContentAt(k) == RStripNL(lines[k])

EmptyAt(k) == ContentAt(k) = <<>>

PreSkippedAt(k) == cfg.ignore_empty_lines /\ EmptyAt(k)

KeyAt(k) == IF cfg.case_sensitive THEN ContentAt(k) ELSE Lower(ContentAt(k))

DuplicateAt(k) == \E j \in 1..(k - 1) : ~PreSkippedAt(j) /\ KeyAt(j) = KeyAt(k)

SuppressedAt(k) ==
    ~PreSkippedAt(k) /\ DuplicateAt(k) /\ EmptyAt(k) /\ ~cfg.keep_empty_duplicates

\* the line reaches the output stage
EmittedAt(k) == ~PreSkippedAt(k) /\ ~SuppressedAt(k)

InUniqueAt(k) ==
    /\ EmittedAt(k)
    /\ \/ ~DuplicateAt(k)
       \/ cfg.tags_to = "unique" /\ ~cfg.disable_tags

Indices(n) == [k \in 1..n |-> k]

EmittedIdx(n) == SelectSeq(Indices(n), LAMBDA k : EmittedAt(k))

UniqueIdx(n) == SelectSeq(Indices(n), LAMBDA k : InUniqueAt(k))

PreSkippedCount(n) == Cardinality({k \in 1..n : PreSkippedAt(k)})

SuppressedCount(n) == Cardinality({k \in 1..n : SuppressedAt(k)})

StripAll(seq) == [k \in 1..Len(seq) |-> RStripNL(seq[k])]

\* the text of an entry after its "[number]" field, when numbers are enabled
RECURSIVE AfterBracket(_)
AfterBracket(e) ==
    IF e = <<>> THEN <<>>
    ELSE IF e[1] = "]" THEN Tail(e)
    ELSE AfterBracket(Tail(e))

\* the digits between "[" and "]" at the head of an entry
RECURSIVE UpToBracket(_)
UpToBracket(e) ==
    IF e = <<>> \/ e[1] = "]" THEN <<>>
    ELSE <<e[1]>> \o UpToBracket(Tail(e))

NumberField(e) == IF e # <<>> /\ e[1] = "[" THEN UpToBracket(Tail(e)) ELSE <<"?">>

ScenarioABA == StripAll(lines) = << <<"a">>, <<"b">>, <<"a">> >>

ScenarioEXE == StripAll(lines) = << <<>>, <<"x">>, <<>> >>

\* C1 (as stated): after all lines are processed, Marked has as many entries
\* as there are input lines minus the pre-skipped empty lines.
C1_Original ==
    pf_pc = "done" =>
        Len(output_lines_marked) = Len(lines) - PreSkippedCount(Len(lines))

\* C1 (amended): at every point of the loop, and so at its end, Marked has as
\* many entries as lines processed, minus the pre-skipped empty lines, minus
\* the empty lines suppressed as duplicates (every empty line after the first
\* one when neither ignore_empty_lines nor keep_empty_duplicates is set).
C1_MarkedLength ==
    /\ Len(output_lines_marked) = i - PreSkippedCount(i) - SuppressedCount(i)
    /\ SuppressedCount(i) =
         IF cfg.ignore_empty_lines \/ cfg.keep_empty_duplicates THEN 0
         ELSE Cardinality({k \in 1..i : EmptyAt(k) /\ \E j \in 1..(k - 1) : EmptyAt(j)})

C1_Witness ==
    /\ pf_pc = "done"
    /\ SuppressedCount(Len(lines)) > 0
    /\ Len(output_lines_marked) < Len(lines)
    /\ ~cfg.ignore_empty_lines

\* C2: the Unique sequence holds exactly the emitted lines that are
\* non-duplicates, or duplicates under tags_to = "unique" with tags enabled,
\* in input order; each carries UNQ (non-duplicate, tags enabled, tags_to
\* "both" or "unique"), DUP (an included duplicate) or no tag; and
\* [a, b, a] with tags_to = "unique" gives [1] UNQ a, [2] UNQ b, [3] DUP a.
C2_ExpectedTag(k) ==
    IF DuplicateAt(k) THEN <<"D", "U", "P">>
    ELSE IF ~cfg.disable_tags /\ cfg.tags_to \in {"both", "unique"}
         THEN <<"U", "N", "Q">>
    ELSE <<>>

C2_ExpectedBody(k) ==
    LET tagged == IF C2_ExpectedTag(k) = <<>> THEN lines[k]
                  ELSE C2_ExpectedTag(k) \o <<" ">> \o lines[k]
    IN  IF cfg.disable_line_number THEN tagged ELSE <<" ">> \o tagged

C2_Body(e) == IF cfg.disable_line_number THEN e ELSE AfterBracket(e)

C2_UniqueSelection ==
    /\ LET idx == UniqueIdx(i)
       IN  /\ Len(output_lines_unique) = Len(idx)
           /\ \A p \in 1..Len(output_lines_unique) :
                C2_Body(output_lines_unique[p]) = C2_ExpectedBody(idx[p])
    /\ (/\ pf_pc = "done"
        /\ ScenarioABA
        /\ cfg = [DefaultConfig EXCEPT !.tags_to = "unique"])
       => StripAll(output_lines_unique) =
            << <<"[", "1", "]", " ", "U", "N", "Q", " ", "a">>,
               <<"[", "2", "]", " ", "U", "N", "Q", " ", "b">>,
               <<"[", "3", "]", " ", "D", "U", "P", " ", "a">> >>

C2_Witness ==
    /\ pf_pc = "done"
    /\ ScenarioABA
    /\ cfg = [DefaultConfig EXCEPT !.tags_to = "unique"]
    /\ Len(output_lines_unique) = 3

C4_Step ==
    (/\ i' = i + 1
     /\ is_empty_line(lines[i + 1])
     /\ line_for_check(lines[i + 1], cfg) \in unique_lines)
    => IF cfg.keep_empty_duplicates
       THEN /\ Len(output_lines_marked') = Len(output_lines_marked) + 1
            /\ SubSeq(output_lines_marked', 1, Len(output_lines_marked))
                 = output_lines_marked
       ELSE UNCHANGED <<output_lines_marked, output_lines_unique, unique_lines>>

C4_Scenario ==
    (pf_pc = "done" /\ ScenarioEXE /\ cfg = DefaultConfig)
    => StripAll(output_lines_marked) =
         << <<"[", "1", "]", " ", "U", "N", "Q", " ">>,
            <<"[", "2", "]", " ", "U", "N", "Q", " ", "x">> >>

\* C4: the step property and the scenario, in every behaviour
C4_EmptyDuplicateSuppressed == [][C4_Step]_vars /\ []C4_Scenario

C4_Witness ==
    /\ i > 0
    /\ SuppressedAt(i)
    /\ cfg.tags_to = "unique"
    /\ ~cfg.disable_tags
    /\ Len(output_lines_marked) < i

\* C5: Marked holds the emitted lines in input order; each entry is "[N]"
\* (N the 1-based input position, zero-padded to the digit count of the input
\* line count) when numbers are enabled, then UNQ or DUP when tags are
\* enabled and tags_to is "both" or "marked", the parts joined by one space
\* and followed by one space and the original line, or the bare line when no
\* part is present; [a, b, a] under the default policy gives Marked
\* [1] UNQ a, [2] UNQ b, [3] DUP a and Unique [1] UNQ a, [2] UNQ b.
C5_Number(k) == <<"[">> \o ZeroPad(Str(k), Len(Str(Len(lines)))) \o <<"]">>

C5_Token(k) == IF DuplicateAt(k) THEN <<"D", "U", "P">> ELSE <<"U", "N", "Q">>

C5_Expected(k) ==
    LET num == ~cfg.disable_line_number
        tag == ~cfg.disable_tags /\ cfg.tags_to \in {"both", "marked"}
    IN  CASE num /\ tag -> C5_Number(k) \o <<" ">> \o C5_Token(k) \o <<" ">> \o lines[k]
          [] num /\ ~tag -> C5_Number(k) \o <<" ">> \o lines[k]
          [] ~num /\ tag -> C5_Token(k) \o <<" ">> \o lines[k]
          [] OTHER -> lines[k]

C5_MarkedFormat ==
    /\ LET idx == EmittedIdx(i)
       IN  /\ Len(output_lines_marked) = Len(idx)
           /\ \A p \in 1..Len(output_lines_marked) :
                output_lines_marked[p] = C5_Expected(idx[p])
    /\ (pf_pc = "done" /\ ScenarioABA /\ cfg = DefaultConfig)
       => /\ StripAll(output_lines_marked) =
               << <<"[", "1", "]", " ", "U", "N", "Q", " ", "a">>,
                  <<"[", "2", "]", " ", "U", "N", "Q", " ", "b">>,
                  <<"[", "3", "]", " ", "D", "U", "P", " ", "a">> >>
          /\ StripAll(output_lines_unique) =
               << <<"[", "1", "]", " ", "U", "N", "Q", " ", "a">>,
                  <<"[", "2", "]", " ", "U", "N", "Q", " ", "b">> >>

C5_Witness ==
    /\ pf_pc = "done"
    /\ Len(lines) >= 10
    /\ \E k \in 1..Len(lines) : PreSkippedAt(k) \/ SuppressedAt(k)
    /\ Len(output_lines_marked) >= 2
    /\ ~cfg.disable_line_number
    /\ cfg.tags_to = "marked"
    /\ ~cfg.disable_tags

-----------------------------------------------------------------------------
(* Properties of sanitize_file *)

\* the index of the first strip pattern that matches at the start of line, or 0
RECURSIVE FirstAtStart(_, _, _)
FirstAtStart(line, strip, k) ==
    IF k > Len(strip) THEN 0
    ELSE IF MatchFrom(Compile(strip[k]), 1, line, 0) # -1 THEN k
    ELSE FirstAtStart(line, strip, k + 1)

\* the line with the span that its first start-matching strip pattern matches removed
PrefixStripped(line, strip) ==
    LET k == FirstAtStart(line, strip, 1)
    IN  IF k = 0 THEN line
        ELSE SubSeq(line, MatchFrom(Compile(strip[k]), 1, line, 0) + 1, Len(line))

RemovedLine(line) ==
    \E k \in 1..Len(san_remove) : ReMatch(Compile(san_remove[k]), line)

\* the text the step has appended to the output
Appended == SubSeq(san_out', Len(san_out) + 1, Len(san_out'))

\* C6: each step of sanitize_file drops the line when a remove pattern
\* matches at its start, and otherwise writes the line with only the span
\* removed that the first strip pattern matching at the line's start matches;
\* a pattern that matches only later in the line removes nothing.
C6_Step ==
    san_k' = san_k + 1 =>
        IF RemovedLine(san_lines[san_k + 1])
        THEN san_out' = san_out
        ELSE san_out' = san_out \o PrefixStripped(san_lines[san_k + 1], san_strip)

\* C6: every step of sanitize_file decides its line as stated above
C6_Original == [][C6_Step]_vars

\* C7: the text written for a line that is not removed ends with the line's
\* own terminator, whether or not a prefix was stripped.
C7_Step ==
    (/\ san_k' = san_k + 1
     /\ ~RemovedLine(san_lines[san_k + 1])
     /\ san_strip = patterns_to_strip_prefix
     /\ san_lines[san_k + 1][Len(san_lines[san_k + 1])] = NL)
    => Appended # <<>> /\ Appended[Len(Appended)] = NL

\* C7: every step that writes a line writes the line's terminator last
C7_Original == [][C7_Step]_vars

\* lines of the written text, as the next stage's readlines() counts them
RECURSIVE CountChar(_, _)
CountChar(s, c) ==
    IF s = <<>> THEN 0 ELSE (IF s[1] = c THEN 1 ELSE 0) + CountChar(Tail(s), c)

LineCount(s) ==
    CountChar(s, NL) + (IF s # <<>> /\ s[Len(s)] # NL THEN 1 ELSE 0)

\* C7, the consequence it draws: with the built-in patterns the sanitized
\* file has as many lines as the input has lines that are not removed.
C7_LineCount ==
    (/\ san_pc = "done"
     /\ san_strip = patterns_to_strip_prefix
     /\ \A k \in 1..Len(san_lines) : san_lines[k][Len(san_lines[k])] = NL)
    => LineCount(san_out) = Cardinality({k \in 1..Len(san_lines) : ~RemovedLine(san_lines[k])})

-----------------------------------------------------------------------------
(* Properties of the main block and of the merge *)

SanitizeFailed ==
    /\ Len(calls) > 0
    /\ calls[Len(calls)] = "sanitize"
    /\ sanitized_file_path = NoPath

NoCandidates == input_kind = "dir" /\ files_to_process = <<>>

\* C8: a run ends with a failure status when the input path does not exist,
\* when the input is a directory and the merge finds no candidate, and when
\* the sanitize stage fails.
C8_Original ==
    (pc = "exit" /\ (input_kind = "missing" \/ NoCandidates \/ SanitizeFailed))
    => exit_status = "1"

\* C8, its last sentence: every other run ends with a non-failure status.
C8_NoOtherFailure ==
    (pc = "exit" /\ ~(input_kind = "missing" \/ NoCandidates \/ SanitizeFailed))
    => exit_status = "0"

WithLeadingDot(e) == IF e # <<>> /\ e[1] = "." THEN e ELSE <<".">> \o e

C9_Candidate(f) ==
    /\ \A k \in 1..Len(ignore_patterns) : ~FnMatch(f, Chars(ignore_patterns[k]))
    /\ \/ include_extensions = <<>>
       \/ \E k \in 1..Len(include_extensions) :
            Lower(SplitExt(f).ext) = Lower(WithLeadingDot(Chars(include_extensions[k])))

\* C9: a file is a merge candidate exactly when its name matches no ignore
\* glob and the allow-list is empty or holds its extension, both compared
\* without regard to letter case once the entry has a leading dot.
C9_Original ==
    dir_pc = "done" =>
        \A f \in Names(dir_files) \ {merged_file} :
            (\E k \in 1..Len(files_to_process) : files_to_process[k] = f)
            <=> C9_Candidate(f)

\* C10: with the default globs and extensions, no file that an earlier run
\* of the tool has written is a merge candidate of a later run.
C10_Original ==
    (include_extensions = DefaultExtensions /\ ignore_patterns = DefaultIgnore)
    => \A k \in 1..Len(files_to_process) : files_to_process[k] \notin earlier_outputs

-----------------------------------------------------------------------------
(* Idempotence of the Unique output *)

\* the line contents of a stripped -UNIQUE file, in order
UniqueContents(text) == StripAll(StripPrefixes(text, cfg))

\* C11: process_file run on its own Unique output, with the number and tag
\* prefixes stripped, under the same policy, writes a Unique output with the
\* same line contents in the same order.
C11_Idempotent ==
    (rerun /\ pf_pc = "done") =>
        UniqueContents(file_unique) = StripAll(first_unique)

C11_Witness ==
    /\ rerun
    /\ pf_pc = "done"
    /\ cfg.tags_to = "unique"
    /\ ~cfg.disable_tags
    /\ ~cfg.case_sensitive
    /\ StripAll(first_unique) = << <<"A">>, <<>>, <<"a">> >>
    /\ UniqueContents(file_unique) = << <<"A">>, <<>>, <<"a">> >>

-----------------------------------------------------------------------------
(* Properties of the seen-set of process_file *)

\* the lines processed so far that were not pre-skipped
Counted(n) == {k \in 1..n : ~PreSkippedAt(k)}

\* two contents that differ, and only in letter case
CaseVariants(a, b) == a # b /\ Lower(a) = Lower(b)

\* the seen-set after i lines: the keys of the counted lines, one per
\* increment of the counter; case variants share one key in case-insensitive
\* mode and have two keys in case-sensitive mode
C12_Inv ==
    /\ unique_lines = {KeyAt(k) : k \in Counted(i)}
    /\ unique_line_counter = Cardinality(unique_lines)
    /\ \A j, k \in Counted(i) :
         CaseVariants(ContentAt(j), ContentAt(k)) =>
            IF cfg.case_sensitive
            THEN {ContentAt(j), ContentAt(k)} \subseteq
                    {key \in unique_lines : Lower(key) = Lower(ContentAt(j))}
            ELSE {key \in unique_lines : Lower(key) = Lower(ContentAt(j))}
                    = {Lower(ContentAt(j))}

\* one iteration: the seen-set only grows; a key is inserted, and the line
\* counted as new, exactly when no earlier counted line has the key; a
\* pre-skipped line and a suppressed line insert nothing
C12_Step ==
    i' = i + 1 =>
        /\ unique_lines \subseteq unique_lines'
        /\ unique_lines' \ unique_lines \subseteq {KeyAt(i + 1)}
        /\ (unique_lines' # unique_lines)
             <=> (~PreSkippedAt(i + 1) /\ ~DuplicateAt(i + 1))
        /\ (unique_line_counter' = unique_line_counter + 1)
             <=> (~PreSkippedAt(i + 1) /\ ~DuplicateAt(i + 1))
        /\ (PreSkippedAt(i + 1) \/ SuppressedAt(i + 1))
             => UNCHANGED <<unique_lines, unique_line_counter>>

\* C12: at every point of the loop the seen-set holds exactly the normalized
\* keys of the processed lines that were not pre-skipped; it only grows; a
\* line is a duplicate exactly when an earlier line inserted its key;
\* pre-skipped and suppressed lines insert nothing; lines differing only in
\* letter case share one key in case-insensitive mode and have two keys in
\* case-sensitive mode.
C12_SeenSet == [][C12_Step]_vars /\ []C12_Inv

C12_Witness ==
    /\ pf_pc = "done"
    /\ ~cfg.case_sensitive
    /\ cfg.ignore_empty_lines
    /\ \E j, k \in 1..Len(lines) :
         j < k /\ ContentAt(j) = <<"A">> /\ ContentAt(k) = <<"a">>
    /\ \E k \in 1..Len(lines) : EmptyAt(k)
    /\ unique_lines = {<<"a">>}

-----------------------------------------------------------------------------
(* Order of the stages in a run *)

IsPrefix(s, t) == Len(s) <= Len(t) /\ SubSeq(t, 1, Len(s)) = s

Called(stage) == \E k \in 1..Len(calls) : calls[k] = stage

\* the merge was called and returned None
MergeFailed == Called("merge") /\ dir_pc = "done" /\ merged_file = NoPath

\* the name of a -MARKED or -UNIQUE file
ClassifierOutput(name) ==
    \/ FnMatch(name, Chars("*-MARKED.*"))
    \/ FnMatch(name, Chars("*-UNIQUE.*"))

\* C13: in every run the stages are called in the order merge (directory
\* input only), sanitize, classify, each at most once and only after the
\* stage before it returned success: no sanitize on a missing input or after
\* a merge that returned no file, no classify after a failed sanitize, and
\* so no -MARKED or -UNIQUE file written in a run with such a failure.
C13_StageOrder ==
    /\ IF input_kind = "dir"
       THEN IsPrefix(calls, <<"merge", "sanitize", "classify">>)
       ELSE IsPrefix(calls, <<"sanitize", "classify">>)
    /\ Called("sanitize") =>
         /\ input_kind \in {"dir", "file"}
         /\ file_to_process_after_merge # NoPath
         /\ input_kind = "dir" =>
              dir_pc = "done" /\ merged_file = file_to_process_after_merge
    /\ Called("classify") =>
         sanitized_file_path = sanitized_output_file(file_to_process_after_merge)
    /\ (input_kind \in {"missing", "other"} \/ MergeFailed) => ~Called("sanitize")
    /\ SanitizeFailed => ~Called("classify")
    /\ (input_kind \in {"missing", "other"} \/ MergeFailed \/ SanitizeFailed) =>
         \A name \in run_outputs : ~ClassifierOutput(name)

C13_Witness ==
    /\ pc = "exit"
    /\ input_kind = "dir"
    /\ calls = <<"merge", "sanitize">>
    /\ SanitizeFailed
    /\ run_outputs = {merged_file}
    /\ \E name \in earlier_outputs : ClassifierOutput(name)

=============================================================================
